---- MODULE Spec2Model ----
(***************************************************************************)
(* Model of the pgx/v4 connection provider of pgdbtemplate-pgx-v4:         *)
(* ConnectionProvider (a name -> pool registry behind one sync.RWMutex)    *)
(* and DatabaseConnection (a handle bound to one pool).                    *)
(*                                                                         *)
(* Every goroutine is a thread that calls Connect, DatabaseConnection.Close*)
(* or ConnectionProvider.Close; a call is a sequence of steps cut at the   *)
(* lock operations and at the driver calls (ParseConfig, ConnectConfig,    *)
(* Ping), whose outcomes are chosen by the environment.                    *)
(***************************************************************************)
EXTENDS Integers, Sequences, FiniteSets, TLC

\* ---------------------------------------------------------------- bounds
NThreads == 2
MaxPools == 3
MaxHandles == 3
MaxCloseCalls == 2
CloseCap == 2
\* handles returned or being requested, under the fair specification
FairMaxHandles == 2
\* options passed to NewConnectionProvider, under the options specification
MaxOpts == 3
\* options the provider is built with, under the configuration specification
MaxConfigOpts == 2

\* ------------------------------------------------------------- constants
Threads == 1..NThreads
DatabaseNames == {"db1", "db2"}
\* an absent map entry / a nil *pgxpool.Pool
NoPool == 0
\* a nil pgdbtemplate.DatabaseConnection
NoConn == 0
\* the RWMutex has no writer
NoThread == 0
\* values of poolConfig.MaxConns the provider may be built with
MaxConnsValues == {-1, 0}

\* ------------------------------------------------- pgxpool.Config, options
\* The fields of pgxpool.Config the provider reads. Durations are whole numbers
\* of time units; AfterConnect is the identity of the hook (0 is nil).
ConfigFields == {"MaxConns", "MinConns", "MaxConnLifetime", "MaxConnIdleTime",
                 "AfterConnect"}
\* the zero value of pgxpool.Config
ZeroConfig == [f \in ConfigFields |-> 0]

\* A ConnectionOption is the function a With... constructor returns; it is
\* represented by the constructor's name and argument (value for the
\* single-field options, config for WithPoolConfig).
WithPoolConfig(config) ==
    [name |-> "WithPoolConfig", value |-> 0, config |-> config]
WithMaxConns(maxConns) ==
    [name |-> "WithMaxConns", value |-> maxConns, config |-> ZeroConfig]
WithMinConns(minConns) ==
    [name |-> "WithMinConns", value |-> minConns, config |-> ZeroConfig]
WithMaxConnLifetime(d) ==
    [name |-> "WithMaxConnLifetime", value |-> d, config |-> ZeroConfig]
WithMaxConnIdleTime(d) ==
    [name |-> "WithMaxConnIdleTime", value |-> d, config |-> ZeroConfig]
WithAfterConnect(fn) ==
    [name |-> "WithAfterConnect", value |-> fn, config |-> ZeroConfig]

\* Mutant: WithPoolConfig copies only the non-zero fields of its argument.
ApplyOption_MergeNonZero(cfg, opt) ==
    CASE opt.name = "WithPoolConfig" ->
            [f \in ConfigFields |-> IF opt.config[f] # 0 THEN opt.config[f] ELSE cfg[f]]
      [] opt.name = "WithMaxConns" -> [cfg EXCEPT !["MaxConns"] = opt.value]
      [] opt.name = "WithMinConns" -> [cfg EXCEPT !["MinConns"] = opt.value]
      [] opt.name = "WithMaxConnLifetime" -> [cfg EXCEPT !["MaxConnLifetime"] = opt.value]
      [] opt.name = "WithMaxConnIdleTime" -> [cfg EXCEPT !["MaxConnIdleTime"] = opt.value]
      [] opt.name = "WithAfterConnect" -> [cfg EXCEPT !["AfterConnect"] = opt.value]

\* opt(provider): the assignment to p.poolConfig the option function performs
ApplyOption(cfg, opt) ==
    CASE opt.name = "WithPoolConfig" -> opt.config
      [] opt.name = "WithMaxConns" -> [cfg EXCEPT !["MaxConns"] = opt.value]
      [] opt.name = "WithMinConns" -> [cfg EXCEPT !["MinConns"] = opt.value]
      [] opt.name = "WithMaxConnLifetime" -> [cfg EXCEPT !["MaxConnLifetime"] = opt.value]
      [] opt.name = "WithMaxConnIdleTime" -> [cfg EXCEPT !["MaxConnIdleTime"] = opt.value]
      [] opt.name = "WithAfterConnect" -> [cfg EXCEPT !["AfterConnect"] = opt.value]

\* for _, opt := range opts { opt(provider) }, starting from the zero poolConfig
RECURSIVE ApplyOptions(_, _)
ApplyOptions(cfg, os) ==
    IF os = <<>> THEN cfg ELSE ApplyOptions(ApplyOption(cfg, Head(os)), Tail(os))

NewConnectionProvider(os) == ApplyOptions(ZeroConfig, os)

\* The arguments the options are called with under the options specification.
OptionValues == {0, 1, 2}
PoolConfigs ==
    {ZeroConfig,
     [f \in ConfigFields |-> 3],
     [f \in ConfigFields |-> IF f \in {"MaxConns", "MaxConnLifetime"} THEN 4 ELSE 0]}
Options ==
    {WithPoolConfig(c) : c \in PoolConfigs}
        \cup {WithMaxConns(v) : v \in OptionValues}
        \cup {WithMinConns(v) : v \in OptionValues}
        \cup {WithMaxConnLifetime(v) : v \in OptionValues}
        \cup {WithMaxConnIdleTime(v) : v \in OptionValues}
        \cup {WithAfterConnect(v) : v \in OptionValues}

VARIABLES
    pools,          \* p.pools: database name -> pool id (NoPool when absent)
    mu,             \* p.mu: [writer, readers]
    poolConfig,     \* p.poolConfig
    opts,           \* the options NewConnectionProvider has applied so far
    pgxpools,       \* every *pgxpool.Pool constructed so far: [db, open, closes]
    conns,          \* every DatabaseConnection returned so far: [Pool, provider, dbName]
    closeCalls,     \* per DatabaseConnection: the number of Close calls started on it
    pc,             \* per thread: the position in its current call
    dbName,         \* per thread: Connect's databaseName argument
    ctx,            \* per thread: Connect's ctx argument ("live" or "cancelled")
    self,           \* per thread: the receiver c of DatabaseConnection.Close
    pool,           \* per thread: Connect's local variable pool
    ret,            \* what the step just taken returned to its caller, if it was a return
    ovState,        \* history: the calls in flight overlap a ConnectionProvider.Close
    ovNames         \* history: the names requested by the overlapping Connect calls

vars == <<pools, mu, poolConfig, opts, pgxpools, conns, closeCalls, pc, dbName,
          ctx, self, pool, ret, ovState, ovNames>>

ConnectPcs == {"rlock", "rcheck", "lock", "dcheck", "parse", "validate",
               "create", "ping", "register"}
ConnClosePcs == {"cc_lock", "cc_close", "cc_unlock"}
ProviderClosePcs == {"pc_lock", "pc_close", "pc_unlock"}

InConnect(t) == pc[t] \in ConnectPcs
InProviderClose(t) == pc[t] \in ProviderClosePcs
InFlight(t) == pc[t] # "idle"
AllIdle == \A t \in Threads : pc[t] = "idle"

\* ------------------------------------------------------------ the driver
\* pgxpool.Pool.Close: closes the pool; closing a closed pool changes nothing
\* but is counted as one more invocation (closes = CloseCap stands for
\* CloseCap or more invocations).
PoolClose(ps, id) ==
    [ps EXCEPT ![id] = [@ EXCEPT !.open = FALSE,
                                 !.closes = IF @ < CloseCap THEN @ + 1 ELSE @]]

\* pgxpool.ParseConfig(p.connectionStringFunc(n)): the configuration parsed from
\* the connection string of database n. The driver's defaults, except that the
\* connection string of db2 sets pool_max_conns.
ParseConfig(n) ==
    [f \in ConfigFields |->
        CASE f = "MaxConns" -> IF n = "db2" THEN 10 ELSE 4
          [] f = "MaxConnLifetime" -> 60
          [] f = "MaxConnIdleTime" -> 30
          [] OTHER -> 0]

\* Mutant: a zero field of the provider's configuration never overrides the
\* parsed value.
ApplyPoolConfig_SkipZero(config, pcfg) ==
    [f \in ConfigFields |-> IF pcfg[f] = 0 THEN config[f] ELSE pcfg[f]]

\* The overrides Connect applies to the parsed config: MaxConns only when the
\* provider's value is not zero, the other fields unconditionally.
ApplyPoolConfig(config, pcfg) ==
    [f \in ConfigFields |->
        IF f = "MaxConns" /\ pcfg[f] = 0 THEN config[f] ELSE pcfg[f]]

\* The registered pool ids.
Registered == {pools[n] : n \in DatabaseNames} \ {NoPool}

\* --------------------------------------------------------------- RWMutex
\* sync.RWMutex: any number of readers or one writer. Go also makes new readers
\* wait behind a blocked Lock; that only removes interleavings and is left out.
CanRLock == mu.writer = NoThread
CanLock == mu.writer = NoThread /\ mu.readers = {}
RLock(t) == [mu EXCEPT !.readers = @ \cup {t}]
RUnlock(t) == [mu EXCEPT !.readers = @ \ {t}]
Lock(t) == [mu EXCEPT !.writer = t]
Unlock(t) == [mu EXCEPT !.writer = NoThread]

\* ------------------------------------------------------- calls and returns
\* History of the calls that overlap a ConnectionProvider.Close call: "active"
\* while every call begun since the last quiescent state overlaps one, "spoiled"
\* once a call began that overlaps none.
\* "off" (the initial value under Spec) records nothing.
OvBase == IF AllIdle THEN [st |-> "none", names |-> {}]
          ELSE [st |-> ovState, names |-> ovNames]

OvCall(t, op, n) ==
    LET others == {u \in Threads \ {t} : InFlight(u)}
        closing == \E u \in Threads \ {t} : InProviderClose(u)
        st == IF op = "pclose"
              THEN IF others # {} /\ OvBase.st # "spoiled" THEN "active" ELSE OvBase.st
              ELSE IF closing
                   THEN IF OvBase.st = "spoiled" THEN "spoiled" ELSE "active"
                   ELSE IF OvBase.st = "active" THEN "spoiled" ELSE OvBase.st
        nm == IF op = "pclose"
              THEN OvBase.names \cup {dbName[u] : u \in {v \in others : InConnect(v)}}
              ELSE IF op = "connect" /\ closing THEN OvBase.names \cup {n}
                   ELSE OvBase.names
    IN IF ovState = "off"
       THEN UNCHANGED <<ovState, ovNames>>
       ELSE /\ ovState' = st
            /\ ovNames' = IF st = "active" THEN nm ELSE {}

\* no return happened in the step just taken
NoRet == [thread |-> NoThread, conn |-> NoConn, err |-> "none", ctx |-> "-"]

Begin(t, to) ==
    /\ pc[t] = "idle"
    /\ pc' = [pc EXCEPT ![t] = to]
    /\ ret' = NoRet

Return(t, c, e) ==
    /\ pc' = [pc EXCEPT ![t] = "idle"]
    /\ ret' = [thread |-> t, conn |-> c, err |-> e, ctx |-> ctx[t]]
    /\ dbName' = [dbName EXCEPT ![t] = "-"]
    /\ ctx' = [ctx EXCEPT ![t] = "-"]
    /\ self' = [self EXCEPT ![t] = NoConn]
    /\ pool' = [pool EXCEPT ![t] = NoPool]

Goto(t, to) ==
    /\ pc' = [pc EXCEPT ![t] = to]
    /\ ret' = NoRet

\* &DatabaseConnection{Pool: pool, provider: p, dbName: databaseName}
NewConn(p, n) == [Pool |-> p, provider |-> TRUE, dbName |-> n]

ReturnConn(t, p) ==
    /\ conns' = Append(conns, NewConn(p, dbName[t]))
    /\ closeCalls' = Append(closeCalls, 0)
    /\ Return(t, Len(conns) + 1, "nil")

\* ------------------------------------------------ ConnectionProvider.Connect
CallConnect(t, c, n) ==
    /\ Len(conns) + Cardinality({u \in Threads : InConnect(u)}) < MaxHandles
    /\ Len(pgxpools) + Cardinality({u \in Threads : InConnect(u)}) < MaxPools
    /\ Begin(t, "rlock")
    /\ dbName' = [dbName EXCEPT ![t] = n]
    /\ ctx' = [ctx EXCEPT ![t] = c]
    /\ OvCall(t, "connect", n)
    /\ UNCHANGED <<pools, mu, poolConfig, opts, pgxpools, conns, closeCalls, self, pool>>

\* p.mu.RLock()
ConnectRLock(t) ==
    /\ pc[t] = "rlock"
    /\ CanRLock
    /\ mu' = RLock(t)
    /\ Goto(t, "rcheck")
    /\ UNCHANGED <<pools, poolConfig, opts, pgxpools, conns, closeCalls, dbName, ctx, self,
                   pool, ovState, ovNames>>

\* Mutant: the read lock is not released when the lookup misses.
ConnectRCheck_KeepsRLock(t) ==
    /\ pc[t] = "rcheck"
    /\ IF pools[dbName[t]] # NoPool
       THEN /\ ReturnConn(t, pools[dbName[t]])
            /\ mu' = RUnlock(t)
       ELSE /\ Goto(t, "lock")
            /\ UNCHANGED <<mu, conns, closeCalls, dbName, ctx, self, pool>>
    /\ UNCHANGED <<pools, poolConfig, opts, pgxpools, ovState, ovNames>>

\* Mutant: the lookup under the read lock never returns the registered pool.
ConnectRCheck_NoFastPath(t) ==
    /\ pc[t] = "rcheck"
    /\ mu' = RUnlock(t)
    /\ Goto(t, "lock")
    /\ UNCHANGED <<conns, closeCalls, dbName, ctx, self, pool>>
    /\ UNCHANGED <<pools, poolConfig, opts, pgxpools, ovState, ovNames>>

\* if pool, exists := p.pools[databaseName]; exists { RUnlock; return } RUnlock
ConnectRCheck(t) ==
    /\ pc[t] = "rcheck"
    /\ mu' = RUnlock(t)
    /\ IF pools[dbName[t]] # NoPool
       THEN ReturnConn(t, pools[dbName[t]])
       ELSE /\ Goto(t, "lock")
            /\ UNCHANGED <<conns, closeCalls, dbName, ctx, self, pool>>
    /\ UNCHANGED <<pools, poolConfig, opts, pgxpools, ovState, ovNames>>

\* Mutant: the re-check and the insert run under the read lock.
ConnectLock_Shared(t) ==
    /\ pc[t] = "lock"
    /\ CanRLock
    /\ mu' = RLock(t)
    /\ Goto(t, "dcheck")
    /\ UNCHANGED <<pools, poolConfig, opts, pgxpools, conns, closeCalls, dbName, ctx, self,
                   pool, ovState, ovNames>>

\* p.mu.Lock(); defer p.mu.Unlock()
ConnectLock(t) ==
    /\ pc[t] = "lock"
    /\ CanLock
    /\ mu' = Lock(t)
    /\ Goto(t, "dcheck")
    /\ UNCHANGED <<pools, poolConfig, opts, pgxpools, conns, closeCalls, dbName, ctx, self,
                   pool, ovState, ovNames>>

\* Mutant: the re-check under the write lock is missing; the pool is always built.
ConnectDoubleCheck_NoRecheck(t) ==
    /\ pc[t] = "dcheck"
    /\ Goto(t, "parse")
    /\ UNCHANGED <<mu, conns, closeCalls, dbName, ctx, self, pool>>
    /\ UNCHANGED <<pools, poolConfig, opts, pgxpools, ovState, ovNames>>

\* Double-check after acquiring write lock.
ConnectDoubleCheck(t) ==
    /\ pc[t] = "dcheck"
    /\ IF pools[dbName[t]] # NoPool
       THEN /\ ReturnConn(t, pools[dbName[t]])
            /\ mu' = Unlock(t)
       ELSE /\ Goto(t, "parse")
            /\ UNCHANGED <<mu, conns, closeCalls, dbName, ctx, self, pool>>
    /\ UNCHANGED <<pools, poolConfig, opts, pgxpools, ovState, ovNames>>

\* Mutant: MaxConns is validated before the connection string is parsed.
ConnectParse_ValidatesFirst(t, ok) ==
    /\ pc[t] = "parse"
    /\ IF poolConfig.MaxConns # 0 /\ poolConfig.MaxConns < 1
       THEN /\ Return(t, NoConn, "maxconns")
            /\ mu' = Unlock(t)
       ELSE IF ok
            THEN /\ Goto(t, "validate")
                 /\ UNCHANGED <<mu, dbName, ctx, self, pool>>
            ELSE /\ Return(t, NoConn, "parse")
                 /\ mu' = Unlock(t)
    /\ UNCHANGED <<pools, poolConfig, opts, pgxpools, conns, closeCalls, ovState, ovNames>>

\* connString := p.connectionStringFunc(databaseName); pgxpool.ParseConfig
ConnectParse(t, ok) ==
    /\ pc[t] = "parse"
    /\ IF ok
       THEN /\ Goto(t, "validate")
            /\ UNCHANGED <<mu, dbName, ctx, self, pool>>
       ELSE /\ Return(t, NoConn, "parse")
            /\ mu' = Unlock(t)
    /\ UNCHANGED <<pools, poolConfig, opts, pgxpools, conns, closeCalls, ovState, ovNames>>

\* Mutant: the write lock is released before the pool is constructed.
ConnectValidate_UnlocksForBuild(t) ==
    /\ pc[t] = "validate"
    /\ mu' = Unlock(t)
    /\ IF poolConfig.MaxConns # 0 /\ poolConfig.MaxConns < 1
       THEN Return(t, NoConn, "maxconns")
       ELSE /\ Goto(t, "create")
            /\ UNCHANGED <<dbName, ctx, self, pool>>
    /\ UNCHANGED <<pools, poolConfig, opts, pgxpools, conns, closeCalls, ovState, ovNames>>

\* Mutant: a zero MaxConns is validated like any other value.
ConnectValidate_NoZeroSkip(t) ==
    /\ pc[t] = "validate"
    /\ IF poolConfig.MaxConns < 1
       THEN /\ Return(t, NoConn, "maxconns")
            /\ mu' = Unlock(t)
       ELSE /\ Goto(t, "create")
            /\ UNCHANGED <<mu, dbName, ctx, self, pool>>
    /\ UNCHANGED <<pools, poolConfig, opts, pgxpools, conns, closeCalls, ovState, ovNames>>

\* if p.poolConfig.MaxConns != 0 { if p.poolConfig.MaxConns < 1 { return error } }
ConnectValidate(t) ==
    /\ pc[t] = "validate"
    /\ IF poolConfig.MaxConns # 0 /\ poolConfig.MaxConns < 1
       THEN /\ Return(t, NoConn, "maxconns")
            /\ mu' = Unlock(t)
       ELSE /\ Goto(t, "create")
            /\ UNCHANGED <<mu, dbName, ctx, self, pool>>
    /\ UNCHANGED <<pools, poolConfig, opts, pgxpools, conns, closeCalls, ovState, ovNames>>

\* Mutant: the pool is constructed under a context that is never cancelled.
ConnectCreate_IgnoresCtx(t, ok) ==
    /\ pc[t] = "create"
    /\ IF ok
       THEN /\ pgxpools' = Append(pgxpools,
                                    [db |-> dbName[t], open |-> TRUE, closes |-> 0,
                                     config |-> ApplyPoolConfig(ParseConfig(dbName[t]),
                                                                poolConfig)])
            /\ pool' = [pool EXCEPT ![t] = Len(pgxpools) + 1]
            /\ Goto(t, "ping")
            /\ UNCHANGED <<mu, dbName, ctx, self>>
       ELSE /\ Return(t, NoConn, "create")
            /\ mu' = Unlock(t)
            /\ UNCHANGED pgxpools
    /\ UNCHANGED <<pools, poolConfig, opts, conns, closeCalls, ovState, ovNames>>

\* pool, err := pgxpool.ConnectConfig(ctx, config)
\* (ConnectConfig establishes a connection under ctx and fails when ctx is cancelled)
ConnectCreate(t, ok) ==
    /\ pc[t] = "create"
    /\ ok => ctx[t] = "live"
    /\ IF ok
       THEN /\ pgxpools' = Append(pgxpools,
                                    [db |-> dbName[t], open |-> TRUE, closes |-> 0,
                                     config |-> ApplyPoolConfig(ParseConfig(dbName[t]),
                                                                poolConfig)])
            /\ pool' = [pool EXCEPT ![t] = Len(pgxpools) + 1]
            /\ Goto(t, "ping")
            /\ UNCHANGED <<mu, dbName, ctx, self>>
       ELSE /\ Return(t, NoConn, "create")
            /\ mu' = Unlock(t)
            /\ UNCHANGED pgxpools
    /\ UNCHANGED <<pools, poolConfig, opts, conns, closeCalls, ovState, ovNames>>

\* Mutant: a pool that fails its ping is not closed.
ConnectPing_NoClose(t, ok) ==
    /\ pc[t] = "ping"
    /\ IF ok
       THEN /\ Goto(t, "register")
            /\ UNCHANGED <<mu, dbName, ctx, self, pool>>
       ELSE /\ Return(t, NoConn, "ping")
            /\ mu' = Unlock(t)
    /\ UNCHANGED <<pools, poolConfig, opts, pgxpools, conns, closeCalls, ovState, ovNames>>

\* Mutant: the pool that failed its ping is closed but left in the map.
ConnectPing_RemembersFailure(t, ok) ==
    /\ pc[t] = "ping"
    /\ ok => ctx[t] = "live"
    /\ IF ok
       THEN /\ Goto(t, "register")
            /\ UNCHANGED <<pools, mu, pgxpools, dbName, ctx, self, pool>>
       ELSE /\ pgxpools' = PoolClose(pgxpools, pool[t])
            /\ pools' = [pools EXCEPT ![dbName[t]] = pool[t]]
            /\ Return(t, NoConn, "ping")
            /\ mu' = Unlock(t)
    /\ UNCHANGED <<poolConfig, opts, conns, closeCalls, ovState, ovNames>>

\* Mutant: a pool that fails its ping is closed twice.
ConnectPing_CloseTwice(t, ok) ==
    /\ pc[t] = "ping"
    /\ ok => ctx[t] = "live"
    /\ IF ok
       THEN /\ Goto(t, "register")
            /\ UNCHANGED <<mu, pgxpools, dbName, ctx, self, pool>>
       ELSE /\ pgxpools' = PoolClose(PoolClose(pgxpools, pool[t]), pool[t])
            /\ Return(t, NoConn, "ping")
            /\ mu' = Unlock(t)
    /\ UNCHANGED <<pools, poolConfig, opts, conns, closeCalls, ovState, ovNames>>

\* Mutant: after a failed ping the pool is closed and constructed again.
ConnectPing_Retry(t, ok) ==
    /\ pc[t] = "ping"
    /\ ok => ctx[t] = "live"
    /\ IF ok
       THEN /\ Goto(t, "register")
            /\ UNCHANGED <<mu, pgxpools, dbName, ctx, self, pool>>
       ELSE /\ pgxpools' = PoolClose(pgxpools, pool[t])
            /\ IF Len(pgxpools) < MaxPools
               THEN /\ Goto(t, "create")
                    /\ UNCHANGED <<mu, dbName, ctx, self, pool>>
               ELSE /\ Return(t, NoConn, "ping")
                    /\ mu' = Unlock(t)
    /\ UNCHANGED <<pools, poolConfig, opts, conns, closeCalls, ovState, ovNames>>

\* if err := pool.Ping(ctx); err != nil { pool.Close(); return error }
ConnectPing(t, ok) ==
    /\ pc[t] = "ping"
    /\ ok => ctx[t] = "live"
    /\ IF ok
       THEN /\ Goto(t, "register")
            /\ UNCHANGED <<mu, pgxpools, dbName, ctx, self, pool>>
       ELSE /\ pgxpools' = PoolClose(pgxpools, pool[t])
            /\ Return(t, NoConn, "ping")
            /\ mu' = Unlock(t)
    /\ UNCHANGED <<pools, poolConfig, opts, conns, closeCalls, ovState, ovNames>>

\* p.pools[databaseName] = pool; return &DatabaseConnection{...}, nil
ConnectRegister(t) ==
    /\ pc[t] = "register"
    /\ pools' = [pools EXCEPT ![dbName[t]] = pool[t]]
    /\ ReturnConn(t, pool[t])
    /\ mu' = Unlock(t)
    /\ UNCHANGED <<poolConfig, opts, pgxpools, ovState, ovNames>>

\* ------------------------------------- ConnectionProvider.GetNoRowsSentinel
\* the driver's "no rows" error value
ErrNoRows == "pgx.ErrNoRows"

\* Mutant: the sentinel of database/sql is returned instead of the driver's.
GetNoRowsSentinel_SqlErrNoRows(t) ==
    /\ pc[t] = "idle"
    /\ ret' = [thread |-> t, conn |-> NoConn, err |-> "sql.ErrNoRows", ctx |-> "-"]
    /\ UNCHANGED <<pools, mu, poolConfig, opts, pgxpools, conns, closeCalls, pc,
                   dbName, ctx, self, pool, ovState, ovNames>>

\* return pgx.ErrNoRows
GetNoRowsSentinel(t) ==
    /\ pc[t] = "idle"
    /\ ret' = [thread |-> t, conn |-> NoConn, err |-> ErrNoRows, ctx |-> "-"]
    /\ UNCHANGED <<pools, mu, poolConfig, opts, pgxpools, conns, closeCalls, pc,
                   dbName, ctx, self, pool, ovState, ovNames>>

\* -------------------------------------------------- ConnectionProvider.Close
CallProviderClose(t) ==
    /\ Begin(t, "pc_lock")
    /\ OvCall(t, "pclose", "-")
    /\ UNCHANGED <<pools, mu, poolConfig, opts, pgxpools, conns, closeCalls, dbName, ctx,
                   self, pool>>

\* p.mu.Lock(); defer p.mu.Unlock()
ProviderCloseLock(t) ==
    /\ pc[t] = "pc_lock"
    /\ CanLock
    /\ mu' = Lock(t)
    /\ Goto(t, "pc_close")
    /\ UNCHANGED <<pools, poolConfig, opts, pgxpools, conns, closeCalls, dbName, ctx, self,
                   pool, ovState, ovNames>>

\* Mutant: the pools are closed but the map is not replaced by an empty one.
ProviderCloseAll_KeepMap(t) ==
    /\ pc[t] = "pc_close"
    /\ pgxpools' = [i \in DOMAIN pgxpools |->
                      IF i \in Registered THEN PoolClose(pgxpools, i)[i]
                      ELSE pgxpools[i]]
    /\ Goto(t, "pc_unlock")
    /\ UNCHANGED <<pools, mu, poolConfig, opts, conns, closeCalls, dbName, ctx, self, pool,
                   ovState, ovNames>>

\* for _, pool := range p.pools { pool.Close() }; p.pools = make(map...)
ProviderCloseAll(t) ==
    /\ pc[t] = "pc_close"
    /\ pgxpools' = [i \in DOMAIN pgxpools |->
                      IF i \in Registered THEN PoolClose(pgxpools, i)[i]
                      ELSE pgxpools[i]]
    /\ pools' = [n \in DatabaseNames |-> NoPool]
    /\ Goto(t, "pc_unlock")
    /\ UNCHANGED <<mu, poolConfig, opts, conns, closeCalls, dbName, ctx, self, pool, ovState, ovNames>>

\* the deferred p.mu.Unlock() and the return
ProviderCloseReturn(t) ==
    /\ pc[t] = "pc_unlock"
    /\ mu' = Unlock(t)
    /\ Return(t, NoConn, "none")
    /\ UNCHANGED <<pools, poolConfig, opts, pgxpools, conns, closeCalls, ovState, ovNames>>

\* -------------------------------------------------- DatabaseConnection.Close
CallConnClose(t, c) ==
    /\ c \in DOMAIN conns
    /\ closeCalls[c] < MaxCloseCalls
    /\ Begin(t, "cc_lock")
    /\ self' = [self EXCEPT ![t] = c]
    /\ closeCalls' = [closeCalls EXCEPT ![c] = @ + 1]
    /\ OvCall(t, "cclose", "-")
    /\ UNCHANGED <<pools, mu, poolConfig, opts, pgxpools, conns, dbName, ctx, pool>>

\* A caller builds a pool itself and wraps it: &DatabaseConnection{Pool: pool}.
\* The handle has no provider and an empty dbName; the pool is never registered.
NewManualConn(t) ==
    /\ pc[t] = "idle"
    /\ Len(conns) + Cardinality({u \in Threads : InConnect(u)}) < MaxHandles
    /\ Len(pgxpools) + Cardinality({u \in Threads : InConnect(u)}) < MaxPools
    /\ pgxpools' = Append(pgxpools, [db |-> "", open |-> TRUE, closes |-> 0,
                                     config |-> ParseConfig("")])
    /\ conns' = Append(conns, [Pool |-> Len(pgxpools) + 1, provider |-> FALSE,
                               dbName |-> ""])
    /\ closeCalls' = Append(closeCalls, 0)
    /\ ret' = NoRet
    /\ UNCHANGED <<pools, mu, poolConfig, opts, pc, dbName, ctx, self, pool,
                   ovState, ovNames>>

\* Mutant: a handle without a provider returns nil without closing its pool.
ConnCloseDirect_NoClose(t) ==
    /\ pc[t] = "cc_lock"
    /\ ~conns[self[t]].provider
    /\ Return(t, NoConn, "nil")
    /\ UNCHANGED <<pools, mu, poolConfig, opts, pgxpools, conns, closeCalls,
                   ovState, ovNames>>

\* if c.provider == nil { c.Pool.Close(); return nil }
ConnCloseDirect(t) ==
    /\ pc[t] = "cc_lock"
    /\ ~conns[self[t]].provider
    /\ pgxpools' = PoolClose(pgxpools, conns[self[t]].Pool)
    /\ Return(t, NoConn, "nil")
    /\ UNCHANGED <<pools, mu, poolConfig, opts, conns, closeCalls, ovState, ovNames>>

\* c.provider.mu.Lock(); defer c.provider.mu.Unlock()
\* (taken only when c.provider != nil)
ConnCloseLock(t) ==
    /\ pc[t] = "cc_lock"
    /\ conns[self[t]].provider
    /\ CanLock
    /\ mu' = Lock(t)
    /\ Goto(t, "cc_close")
    /\ UNCHANGED <<pools, poolConfig, opts, pgxpools, conns, closeCalls, dbName, ctx, self,
                   pool, ovState, ovNames>>

\* Mutant: the map is replaced by an empty one instead of one entry being deleted.
ConnClosePool_ClearsMap(t) ==
    /\ pc[t] = "cc_close"
    /\ pgxpools' = PoolClose(pgxpools, conns[self[t]].Pool)
    /\ pools' = [n \in DatabaseNames |-> NoPool]
    /\ Goto(t, "cc_unlock")
    /\ UNCHANGED <<mu, poolConfig, opts, conns, closeCalls, dbName, ctx, self, pool,
                   ovState, ovNames>>

\* Mutant: the pool is closed only by the last handle bound to it that is closed.
ConnClosePool_LastRef(t) ==
    /\ pc[t] = "cc_close"
    /\ IF \E d \in DOMAIN conns : /\ d # self[t]
                                   /\ conns[d].Pool = conns[self[t]].Pool
                                   /\ closeCalls[d] = 0
       THEN UNCHANGED <<pgxpools, pools>>
       ELSE /\ pgxpools' = PoolClose(pgxpools, conns[self[t]].Pool)
            /\ pools' = [pools EXCEPT ![conns[self[t]].dbName] = NoPool]
    /\ Goto(t, "cc_unlock")
    /\ UNCHANGED <<mu, poolConfig, opts, conns, closeCalls, dbName, ctx, self, pool,
                   ovState, ovNames>>

\* Mutant: the map entry is not deleted.
ConnClosePool_NoDelete(t) ==
    /\ pc[t] = "cc_close"
    /\ pgxpools' = PoolClose(pgxpools, conns[self[t]].Pool)
    /\ Goto(t, "cc_unlock")
    /\ UNCHANGED <<pools, mu, poolConfig, opts, conns, closeCalls, dbName, ctx, self, pool,
                   ovState, ovNames>>

\* c.Pool.Close(); delete(c.provider.pools, c.dbName)
ConnClosePool(t) ==
    /\ pc[t] = "cc_close"
    /\ pgxpools' = PoolClose(pgxpools, conns[self[t]].Pool)
    /\ pools' = [pools EXCEPT ![conns[self[t]].dbName] = NoPool]
    /\ Goto(t, "cc_unlock")
    /\ UNCHANGED <<mu, poolConfig, opts, conns, closeCalls, dbName, ctx, self, pool, ovState, ovNames>>

\* the deferred Unlock and return nil
ConnCloseReturn(t) ==
    /\ pc[t] = "cc_unlock"
    /\ mu' = Unlock(t)
    /\ Return(t, NoConn, "nil")
    /\ UNCHANGED <<pools, poolConfig, opts, pgxpools, conns, closeCalls, ovState, ovNames>>

\* ------------------------------------------------------------ specification
\* NewConnectionProvider: an empty registry, an unlocked mutex, the options applied.
Init ==
    /\ pools = [n \in DatabaseNames |-> NoPool]
    /\ mu = [writer |-> NoThread, readers |-> {}]
    /\ \E m \in MaxConnsValues :
          opts = IF m = 0 THEN <<>> ELSE <<WithMaxConns(m)>>
    /\ poolConfig = NewConnectionProvider(opts)
    /\ pgxpools = <<>>
    /\ conns = <<>>
    /\ closeCalls = <<>>
    /\ pc = [t \in Threads |-> "idle"]
    /\ dbName = [t \in Threads |-> "-"]
    /\ ctx = [t \in Threads |-> "-"]
    /\ self = [t \in Threads |-> NoConn]
    /\ pool = [t \in Threads |-> NoPool]
    /\ ret = NoRet
    /\ ovState = "off"
    /\ ovNames = {}

Next ==
    \E t \in Threads :
        \/ \E n \in DatabaseNames : CallConnect(t, "live", n)
        \/ ConnectRLock(t)
        \/ ConnectRCheck(t)
        \/ ConnectLock(t)
        \/ ConnectDoubleCheck(t)
        \/ \E ok \in BOOLEAN : ConnectParse(t, ok)
        \/ ConnectValidate(t)
        \/ \E ok \in BOOLEAN : ConnectCreate(t, ok)
        \/ \E ok \in BOOLEAN : ConnectPing(t, ok)
        \/ ConnectRegister(t)
        \/ CallProviderClose(t)
        \/ ProviderCloseLock(t)
        \/ ProviderCloseAll(t)
        \/ ProviderCloseReturn(t)
        \/ \E c \in 1..MaxHandles : CallConnClose(t, c)
        \/ ConnCloseLock(t)
        \/ ConnClosePool(t)
        \/ ConnCloseReturn(t)

Spec == Init /\ [][Next]_vars

\* The steps in which thread t acquires the registry lock, and its other steps
\* (driver calls, map operations, unlocks and returns).
LockStep(t) ==
    \/ ConnectRLock(t)
    \/ ConnectLock(t)
    \/ ProviderCloseLock(t)
    \/ ConnCloseLock(t)

RunStep(t) ==
    \/ ConnectRCheck(t)
    \/ ConnectDoubleCheck(t)
    \/ \E ok \in BOOLEAN : ConnectParse(t, ok)
    \/ ConnectValidate(t)
    \/ \E ok \in BOOLEAN : ConnectCreate(t, ok)
    \/ \E ok \in BOOLEAN : ConnectPing(t, ok)
    \/ ConnectRegister(t)
    \/ ProviderCloseAll(t)
    \/ ProviderCloseReturn(t)
    \/ ConnClosePool(t)
    \/ ConnCloseReturn(t)

\* Every goroutine keeps running and every driver call returns (weak fairness of
\* the steps that wait for nothing); the RWMutex is fair: a goroutine that finds
\* the lock free again and again eventually acquires it (strong fairness).
NextFair ==
    \E t \in Threads :
        \/ \E n \in DatabaseNames :
              /\ Len(conns) + Cardinality({u \in Threads : InConnect(u)}) < FairMaxHandles
              /\ CallConnect(t, "live", n)
        \/ CallProviderClose(t)
        \/ \E c \in 1..MaxHandles : CallConnClose(t, c)
        \/ LockStep(t)
        \/ RunStep(t)

SpecFair ==
    /\ Init
    /\ [][NextFair]_vars
    /\ \A t \in Threads : WF_vars(RunStep(t)) /\ SF_vars(LockStep(t))

\* Connect is also called with a context that was cancelled before the call.
NextCancel ==
    \/ Next
    \/ \E t \in Threads, n \in DatabaseNames : CallConnect(t, "cancelled", n)

SpecCancel == Init /\ [][NextCancel]_vars

\* Callers also wrap pools of their own in DatabaseConnection values and close them.
NextManual ==
    \/ Next
    \/ \E t \in Threads : NewManualConn(t)
    \/ \E t \in Threads : ConnCloseDirect(t)

SpecManual == Init /\ [][NextManual]_vars

\* NewConnectionProvider applying its options one by one:
\* provider := &ConnectionProvider{...}, then opt(provider) for each opt in order.
InitOptions ==
    /\ pools = [n \in DatabaseNames |-> NoPool]
    /\ mu = [writer |-> NoThread, readers |-> {}]
    /\ opts = <<>>
    /\ poolConfig = ZeroConfig
    /\ pgxpools = <<>>
    /\ conns = <<>>
    /\ closeCalls = <<>>
    /\ pc = [t \in Threads |-> "idle"]
    /\ dbName = [t \in Threads |-> "-"]
    /\ ctx = [t \in Threads |-> "-"]
    /\ self = [t \in Threads |-> NoConn]
    /\ pool = [t \in Threads |-> NoPool]
    /\ ret = NoRet
    /\ ovState = "off"
    /\ ovNames = {}

ApplyNextOption(opt) ==
    /\ Len(opts) < MaxOpts
    /\ opts' = Append(opts, opt)
    /\ poolConfig' = ApplyOption(poolConfig, opt)
    /\ UNCHANGED <<pools, mu, pgxpools, conns, closeCalls, pc, dbName, ctx, self,
                   pool, ret, ovState, ovNames>>

NextOptions == \E opt \in Options : ApplyNextOption(opt)

SpecOptions == InitOptions /\ [][NextOptions]_vars

\* Callers also ask the provider for its "no rows" sentinel.
NextSentinel ==
    \/ Next
    \/ \E t \in Threads : GetNoRowsSentinel(t)

SpecSentinel == Init /\ [][NextSentinel]_vars

\* Providers built with every sequence of up to MaxConfigOpts options (an
\* invalid MaxConns included), on which Connect calls run with driver calls
\* that succeed.
ConfigOptionSeqs ==
    UNION {[1..k -> Options \cup {WithMaxConns(-1)}] : k \in 0..MaxConfigOpts}

InitConfig ==
    /\ pools = [n \in DatabaseNames |-> NoPool]
    /\ mu = [writer |-> NoThread, readers |-> {}]
    /\ opts \in ConfigOptionSeqs
    /\ poolConfig = NewConnectionProvider(opts)
    /\ pgxpools = <<>>
    /\ conns = <<>>
    /\ closeCalls = <<>>
    /\ pc = [t \in Threads |-> "idle"]
    /\ dbName = [t \in Threads |-> "-"]
    /\ ctx = [t \in Threads |-> "-"]
    /\ self = [t \in Threads |-> NoConn]
    /\ pool = [t \in Threads |-> NoPool]
    /\ ret = NoRet
    /\ ovState = "off"
    /\ ovNames = {}

\* Concurrent first-time Connect calls: only Connect runs, the provider's MaxConns
\* is valid, and ParseConfig, ConnectConfig and Ping succeed.
InitConnectOnly == Init /\ poolConfig.MaxConns = 0

NextConnectOnly ==
    \E t \in Threads :
        \/ \E n \in DatabaseNames : CallConnect(t, "live", n)
        \/ ConnectRLock(t)
        \/ ConnectRCheck(t)
        \/ ConnectLock(t)
        \/ ConnectDoubleCheck(t)
        \/ ConnectParse(t, TRUE)
        \/ ConnectValidate(t)
        \/ ConnectCreate(t, TRUE)
        \/ ConnectPing(t, TRUE)
        \/ ConnectRegister(t)

SpecConnectOnly == InitConnectOnly /\ [][NextConnectOnly]_vars

SpecConfig == InitConfig /\ [][NextConnectOnly]_vars

\* Every call overlapping a ConnectionProvider.Close is recorded in ovState, ovNames.
InitOverlap ==
    /\ pools = [n \in DatabaseNames |-> NoPool]
    /\ mu = [writer |-> NoThread, readers |-> {}]
    /\ \E m \in MaxConnsValues :
          opts = IF m = 0 THEN <<>> ELSE <<WithMaxConns(m)>>
    /\ poolConfig = NewConnectionProvider(opts)
    /\ pgxpools = <<>>
    /\ conns = <<>>
    /\ closeCalls = <<>>
    /\ pc = [t \in Threads |-> "idle"]
    /\ dbName = [t \in Threads |-> "-"]
    /\ ctx = [t \in Threads |-> "-"]
    /\ self = [t \in Threads |-> NoConn]
    /\ pool = [t \in Threads |-> NoPool]
    /\ ret = NoRet
    /\ ovState = "none"
    /\ ovNames = {}

SpecOverlap == InitOverlap /\ [][Next]_vars

TypeOK ==
    /\ pools \in [DatabaseNames -> 0..MaxPools]
    /\ mu.writer \in Threads \cup {NoThread}
    /\ mu.readers \subseteq Threads
    /\ Len(pgxpools) <= MaxPools
    /\ Len(conns) <= MaxHandles
    /\ \A t \in Threads : pc[t] \in ConnectPcs \cup ConnClosePcs \cup ProviderClosePcs \cup {"idle"}

\* ------------------------------------------------------------------ helpers
PoolsFor(n) == {i \in DOMAIN pgxpools : pgxpools[i].db = n}
LivePoolsFor(n) == {i \in PoolsFor(n) : pgxpools[i].open}
ConnsOn(p) == {c \in DOMAIN conns : conns[c].Pool = p}
ErrorValues == {"parse", "maxconns", "create", "ping"}

\* The steps of thread t, as action formulas.
ConnClosePoolStep(t) == pc[t] = "cc_close" /\ pc'[t] = "cc_unlock"
ProviderCloseAllStep(t) == pc[t] = "pc_close" /\ pc'[t] = "pc_unlock"
ConnectReturnStep(t) == InConnect(t) /\ pc'[t] = "idle"

\* The handles returned by Connect for database n, and: there are such handles
\* and a Close call on each of them has returned.
HandlesFor(n) == {c \in DOMAIN conns : conns[c].provider /\ conns[c].dbName = n}
AllClosed(n) ==
    /\ HandlesFor(n) # {}
    /\ \A c \in HandlesFor(n) :
          closeCalls[c] >= 1 /\ \A t \in Threads : self[t] # c

\* The field a single-field option assigns; whether an option assigns field f,
\* and the value it assigns to it.
OptionField(name) ==
    CASE name = "WithMaxConns" -> "MaxConns"
      [] name = "WithMinConns" -> "MinConns"
      [] name = "WithMaxConnLifetime" -> "MaxConnLifetime"
      [] name = "WithMaxConnIdleTime" -> "MaxConnIdleTime"
      [] name = "WithAfterConnect" -> "AfterConnect"
      [] OTHER -> "-"
Touches(opt, f) == opt.name = "WithPoolConfig" \/ OptionField(opt.name) = f
Written(opt, f) == IF opt.name = "WithPoolConfig" THEN opt.config[f] ELSE opt.value
\* The value the last option of os touching field f writes (zero when none does).
LastWrite(os, f) ==
    LET I == {i \in 1..Len(os) : Touches(os[i], f)}
    IN IF I = {} THEN 0
       ELSE Written(os[CHOOSE i \in I : \A j \in I : j <= i], f)

\* Thread t has called GetNoRowsSentinel in this step: it was and stays in no
\* other call and the step returned to it.
SentinelStep(t) ==
    pc[t] = "idle" /\ pc'[t] = "idle" /\ ret'.thread = t /\ ret' # ret

\* The positions at which the next step of a thread reads p.pools, and those at
\* which it inserts into, deletes from or replaces p.pools.
MapReadPcs == {"rcheck", "dcheck", "pc_close"}
MapWritePcs == {"register", "pc_close", "cc_close"}

\* The position of each step of Connect in the order of its statements.
ConnectRank(p) ==
    CASE p = "rlock" -> 1
      [] p = "rcheck" -> 2
      [] p = "lock" -> 3
      [] p = "dcheck" -> 4
      [] p = "parse" -> 5
      [] p = "validate" -> 6
      [] p = "create" -> 7
      [] p = "ping" -> 8
      [] p = "register" -> 9

\* The stages of building a pool, the position that follows each stage when it
\* succeeds, and the error Connect returns when it fails.
BuildStages == {"parse", "validate", "create", "ping"}
StageAfter(st) ==
    CASE st = "parse" -> "validate"
      [] st = "validate" -> "create"
      [] st = "create" -> "ping"
      [] st = "ping" -> "register"
StageError(st) ==
    CASE st = "parse" -> "parse"
      [] st = "validate" -> "maxconns"
      [] st = "create" -> "create"
      [] st = "ping" -> "ping"

\* The positions of a Connect that is building a pool, and the positions at
\* which a call waits for the lock.
BuildingPcs == BuildStages \cup {"register"}
LockWaitPcs == {"rlock", "lock", "cc_lock", "pc_lock"}

\* ----------------------------------------------------------------------- C1
\* C1: when only Connect calls run concurrently and every driver call succeeds,
\* at most one pool is ever constructed per database name (exactly one once a
\* call for the name has returned), every Connect returns a nil error with a
\* connection, and all connections for a name are bound to that one pool, which
\* is the registered one.
C1_OnePoolForConcurrentConnects ==
    /\ \A n \in DatabaseNames : Cardinality(PoolsFor(n)) <= 1
    /\ ret.thread # NoThread => ret.err = "nil" /\ ret.conn \in DOMAIN conns
    /\ \A c \in DOMAIN conns :
          /\ PoolsFor(conns[c].dbName) = {conns[c].Pool}
          /\ pools[conns[c].dbName] = conns[c].Pool

\* Two callers raced for the same unseen name: one has registered its pool and
\* returned, the other holds the write lock at the double-check.
C1_Witness ==
    \E t \in Threads :
        /\ pc[t] = "dcheck"
        /\ pools[dbName[t]] # NoPool
        /\ \E c \in DOMAIN conns : conns[c].dbName = dbName[t]

\* ----------------------------------------------------------------------- C2
\* C2: in every reachable state there is at most one live pool (constructed
\* and not closed) per database name.
C2_AtMostOneLivePoolPerName ==
    \A n \in DatabaseNames : Cardinality(LivePoolsFor(n)) <= 1

\* ----------------------------------------------------------------------- C3
\* C3 as stated: DatabaseConnection.Close leaves an open pool open while
\* another handle bound to the same pool has not had Close called on it.
C3_ClosedOnLastReference ==
    [][\A t \in Threads :
         ConnClosePoolStep(t) =>
           LET p == conns[self[t]].Pool
           IN (/\ pgxpools[p].open
               /\ \E d \in ConnsOn(p) : d # self[t] /\ closeCalls[d] = 0)
              => pgxpools'[p].open]_vars

\* C3 amended: a pool is closed by the first DatabaseConnection.Close on any
\* handle bound to it, whatever the other handles bound to it; and an open pool
\* is closed by nothing but such a Close, a ConnectionProvider.Close that finds
\* it registered, or the failed ping of the Connect that built it.
C3_ClosedOnFirstClose ==
    [][\A p \in DOMAIN pgxpools :
         /\ (\E t \in Threads : ConnClosePoolStep(t) /\ conns[self[t]].Pool = p)
              => ~pgxpools'[p].open
         /\ (pgxpools[p].open /\ ~pgxpools'[p].open) =>
              \/ \E t \in Threads : ConnClosePoolStep(t) /\ conns[self[t]].Pool = p
              \/ \E t \in Threads : ProviderCloseAllStep(t) /\ p \in Registered
              \/ \E t \in Threads : pc[t] = "ping" /\ pool[t] = p /\ pc'[t] = "idle"]_vars

\* One handle of a shared pool was closed, and the pool with it, while another
\* handle bound to the pool has had no Close call.
C3_Witness ==
    \E t \in Threads :
        /\ pc[t] = "cc_unlock"
        /\ pgxpools[conns[self[t]].Pool].closes = 1
        /\ ~pgxpools[conns[self[t]].Pool].open
        /\ \E d \in ConnsOn(conns[self[t]].Pool) : d # self[t] /\ closeCalls[d] = 0

\* ----------------------------------------------------------------------- C4
\* C4: DatabaseConnection.Close removes its database name from the registry,
\* and no Connect hands out a pool that was closed before: the connection a
\* Connect returns is bound to a pool that is open when it is looked up or
\* built, so a Connect after the Close builds a new pool.
C4_CloseRemovesAndNoReuse ==
    [][\A t \in Threads :
         /\ ConnClosePoolStep(t) => pools'[conns[self[t]].dbName] = NoPool
         /\ (ConnectReturnStep(t) /\ ret'.conn # NoConn) =>
              /\ conns'[ret'.conn].dbName = dbName[t]
              /\ conns'[ret'.conn].Pool \in DOMAIN pgxpools
              /\ pgxpools[conns'[ret'.conn].Pool].open
              /\ pgxpools[conns'[ret'.conn].Pool].closes = 0]_vars

\* A handle was closed, its pool with it, and a later Connect for the same name
\* returned a handle bound to a newer pool that is open and registered.
C4_Witness ==
    \E c, d \in DOMAIN conns :
        /\ c < d
        /\ conns[c].dbName = conns[d].dbName
        /\ closeCalls[c] >= 1
        /\ ~pgxpools[conns[c].Pool].open
        /\ conns[c].Pool < conns[d].Pool
        /\ pgxpools[conns[d].Pool].open
        /\ pools[conns[d].dbName] = conns[d].Pool
        /\ ret.conn = d

\* ----------------------------------------------------------------------- C5
\* C5: after two Close calls on the same handle have returned, the close of
\* the handle's pool has been invoked at most once.
C5_DoubleCloseReleasesOnce ==
    \A c \in DOMAIN conns :
        (closeCalls[c] >= 2 /\ \A t \in Threads : self[t] # c)
            => pgxpools[conns[c].Pool].closes <= 1

\* ----------------------------------------------------------------------- C6
\* C6: while the calls in flight overlap a ConnectionProvider.Close, no
\* invocation of a pool's close is the second one for that pool.
C6_NoDoubleCloseUnderProviderClose ==
    [][\A p \in DOMAIN pgxpools :
         (ovState' = "active" /\ pgxpools'[p].closes > pgxpools[p].closes)
            => pgxpools'[p].closes <= 1]_vars

\* ----------------------------------------------------------------------- C7
\* C7: ConnectionProvider.Close invokes the close of exactly the pools
\* registered when it holds the lock, once each, and leaves the registry
\* empty; on an empty registry it changes nothing.
C7_ProviderCloseClosesRegistered ==
    [][\A t \in Threads :
         ProviderCloseAllStep(t) =>
           /\ mu.writer = t
           /\ \A n \in DatabaseNames : pools'[n] = NoPool
           /\ DOMAIN pgxpools' = DOMAIN pgxpools
           /\ \A p \in DOMAIN pgxpools :
                 IF p \in Registered
                 THEN /\ pgxpools[p].open
                      /\ ~pgxpools'[p].open
                      /\ pgxpools'[p].closes = 1
                 ELSE pgxpools'[p] = pgxpools[p]
           /\ Registered = {} => pools' = pools /\ pgxpools' = pgxpools
           /\ conns' = conns]_vars

\* ConnectionProvider.Close has just closed a registered pool none of whose
\* handles had a Close call, and the registry is empty.
C7_Witness ==
    \E t \in Threads :
        /\ pc[t] = "pc_unlock"
        /\ Registered = {}
        /\ \E p \in DOMAIN pgxpools :
              /\ ~pgxpools[p].open
              /\ pgxpools[p].closes = 1
              /\ ConnsOn(p) # {}
              /\ \A c \in ConnsOn(p) : closeCalls[c] = 0

\* ----------------------------------------------------------------------- C8
\* C8 as stated: once a ConnectionProvider.Close and all the calls that
\* overlapped it have returned, the registry is empty.
C8_RegistryEmptyAfterOverlap ==
    (AllIdle /\ ovState = "active") => Registered = {}

\* C8 amended: once they have all returned, the registry holds no entry but
\* for the names requested by the overlapping Connect calls; it is empty when
\* only DatabaseConnection.Close calls overlapped.
C8_RegistryHoldsOnlyOverlappingConnects ==
    (AllIdle /\ ovState = "active") =>
        \A n \in DatabaseNames : pools[n] # NoPool => n \in ovNames

\* A ConnectionProvider.Close and the calls overlapping it have returned; a
\* pool registered before was closed by it and only DatabaseConnection.Close
\* calls overlapped.
C8_Witness ==
    /\ AllIdle
    /\ ovState = "active"
    /\ ovNames = {}
    /\ \E c \in DOMAIN conns : closeCalls[c] >= 1
    /\ \E p \in DOMAIN pgxpools : ~pgxpools[p].open /\ ConnsOn(p) # {}

\* ----------------------------------------------------------------------- C9
\* C9: when a ConnectionProvider.Close that no other call overlapped is about
\* to return, no pool constructed by Connect is open.
C9_ProviderCloseLeavesNoOpenPool ==
    \A t \in Threads :
        (/\ pc[t] = "pc_unlock"
         /\ ovState = "none"
         /\ \A u \in Threads \ {t} : pc[u] = "idle")
            => \A p \in DOMAIN pgxpools : ~pgxpools[p].open

\* ---------------------------------------------------------------------- C10
\* C10: a Connect that returns an error returns a nil connection, has left
\* the registry and the handles as they were, holds no lock, and has left no
\* pool it built open or registered; the only Connect step that changes the
\* registry is the one that returns a nil error.
C10_FailedConnectLeavesNoState ==
    [][\A t \in Threads :
         /\ ConnectReturnStep(t) =>
              /\ ret'.thread = t
              /\ ret'.err = "nil" <=> ret'.conn # NoConn
              /\ ret'.err \in ErrorValues \cup {"nil"}
         /\ (ConnectReturnStep(t) /\ ret'.err # "nil") =>
              /\ pools' = pools
              /\ conns' = conns
              /\ mu'.writer = NoThread /\ t \notin mu'.readers
              /\ \A p \in DOMAIN pgxpools' \ DOMAIN pgxpools : ~pgxpools'[p].open
              /\ pool[t] # NoPool =>
                    ~pgxpools'[pool[t]].open /\ pool[t] \notin Registered'
         /\ (InConnect(t) /\ pc'[t] # pc[t] /\ pools' # pools) =>
              ret'.thread = t /\ ret'.err = "nil"]_vars

\* A Connect has just failed at the ping: the pool it built is closed and not
\* registered, and no connection was returned.
C10_Witness ==
    /\ ret.err = "ping"
    /\ ret.conn = NoConn
    /\ pgxpools # <<>>
    /\ ~pgxpools[Len(pgxpools)].open
    /\ Len(pgxpools) \notin Registered
    /\ ConnsOn(Len(pgxpools)) = {}

\* ---------------------------------------------------------------------- C11
\* C11 (as stated): under a provider whose MaxConns is non-zero and below 1,
\* every Connect that returns an error returns the MaxConns validation error.
C11_AlwaysValidationError ==
    (poolConfig.MaxConns # 0 /\ poolConfig.MaxConns < 1)
        => (ret.thread # NoThread /\ ret.err # "none" => ret.err = "maxconns")

\* C11 (amended): under a provider whose MaxConns is non-zero and below 1 no
\* Connect gets past the validation: no call reaches pool construction or the
\* ping, no pool is ever constructed, no handle is returned, and a call fails
\* with the parse error or, once its connection string parsed, with the
\* validation error. Under MaxConns = 0 the validation error is never returned
\* and every pool keeps the MaxConns parsed from its connection string.
C11_InvalidMaxConnsRejected ==
    /\ (poolConfig.MaxConns # 0 /\ poolConfig.MaxConns < 1) =>
          /\ \A t \in Threads : pc[t] \notin {"create", "ping", "register"}
          /\ pgxpools = <<>>
          /\ conns = <<>>
          /\ ret.conn = NoConn
          /\ ret.err \in {"none", "parse", "maxconns"}
    /\ poolConfig.MaxConns = 0 =>
          /\ ret.err # "maxconns"
          /\ \A i \in DOMAIN pgxpools :
                pgxpools[i].config.MaxConns = ParseConfig(pgxpools[i].db).MaxConns

\* A Connect under MaxConns = -1 has just returned the validation error.
C11_Witness ==
    /\ poolConfig.MaxConns = -1
    /\ ret.thread # NoThread
    /\ ret.err = "maxconns"

\* ---------------------------------------------------------------------- C12
\* C12 (as stated): a Connect whose context was cancelled before the call
\* returns an error and leaves no registry entry for the requested name.
C12_CancelledConnectFailsAndNoEntry ==
    [][\A t \in Threads :
         (ctx[t] = "cancelled" /\ ConnectReturnStep(t)) =>
              /\ ret'.err # "nil"
              /\ pools'[dbName[t]] = NoPool]_vars

\* C12 (amended): a Connect whose context was cancelled before the call never
\* constructs a pool, never pings and never changes the registry; it returns
\* the handle of the pool it finds registered for the name, or else fails with
\* the parse, the validation or (when it reaches pool construction) the
\* construction error, and then the name still has no registry entry.
C12_CancelledConnectBuildsNothing ==
    [][\A t \in Threads :
         (ctx[t] = "cancelled" /\ pc'[t] # pc[t]) =>
              /\ pools' = pools
              /\ pgxpools' = pgxpools
              /\ pc'[t] \notin {"ping", "register"}
              /\ pc[t] = "create" => pc'[t] = "idle" /\ ret'.err = "create"
              /\ pc'[t] = "idle" =>
                    \/ /\ ret'.err = "nil"
                       /\ pools[dbName[t]] # NoPool
                       /\ conns'[ret'.conn].Pool = pools[dbName[t]]
                    \/ /\ ret'.err \in {"parse", "maxconns", "create"}
                       /\ pools'[dbName[t]] = NoPool]_vars

\* A Connect with a cancelled context has just failed at pool construction.
C12_Witness ==
    /\ ret.thread # NoThread
    /\ ret.ctx = "cancelled"
    /\ ret.err = "create"

\* ---------------------------------------------------------------------- C13
\* C13: a Connect that builds a pool starts with the parse stage and runs the
\* stages in the order parse, validate MaxConns, construct, ping: a stage that
\* succeeds is followed by the next one, a stage that fails ends the call at
\* once with no handle and with the error of exactly that stage; a pool is
\* constructed only by the construct stage.
C13_StagesInOrderFirstFailureReported ==
    [][\A t \in Threads :
         /\ (pc[t] \in BuildStages /\ pc'[t] # pc[t]) =>
               \/ pc'[t] = StageAfter(pc[t])
               \/ /\ pc'[t] = "idle"
                  /\ ret'.thread = t
                  /\ ret'.conn = NoConn
                  /\ ret'.err = StageError(pc[t])
         /\ (pc[t] \notin BuildStages /\ pc'[t] \in BuildStages) =>
               pc[t] = "dcheck" /\ pc'[t] = "parse"
         /\ (pc'[t] # pc[t] /\ pgxpools' # pgxpools /\ Len(pgxpools') > Len(pgxpools)) =>
               pc[t] = "create"]_vars

\* An unparsable connection string has just been reported as the parse error
\* under a provider whose MaxConns is invalid as well.
C13_Witness ==
    /\ ret.thread # NoThread
    /\ ret.err = "parse"
    /\ poolConfig.MaxConns = -1

\* ---------------------------------------------------------------------- C14
\* C14: a Connect whose lookup (under the read lock, or again under the write
\* lock) finds a pool registered for the requested name returns at once a new
\* handle bound to that pool with a nil error; it goes on to no build stage (no
\* connection string, no pool construction, no ping) and leaves the registry
\* and the pools unchanged.
C14_RegisteredPoolReused ==
    [][\A t \in Threads :
         (pc[t] \in {"rcheck", "dcheck"} /\ pc'[t] # pc[t] /\ pools[dbName[t]] # NoPool) =>
              /\ pc'[t] = "idle"
              /\ ret'.thread = t
              /\ ret'.err = "nil"
              /\ ret'.conn = Len(conns) + 1
              /\ Len(conns') = Len(conns) + 1
              /\ conns'[ret'.conn].Pool = pools[dbName[t]]
              /\ conns'[ret'.conn].dbName = dbName[t]
              /\ pools' = pools
              /\ pgxpools' = pgxpools]_vars

\* Two Connect calls for one name have returned, the second just now; both
\* handles are bound to the only pool constructed.
C14_Witness ==
    /\ ret.err = "nil"
    /\ ret.conn = 2
    /\ Len(conns) = 2
    /\ conns[1].dbName = conns[2].dbName
    /\ conns[1].Pool = conns[2].Pool
    /\ Len(pgxpools) = 1
    /\ pools[conns[2].dbName] = conns[2].Pool

\* ---------------------------------------------------------------------- C15
\* C15: Connect never retries: every step of a call moves it forward in the
\* order of Connect's statements or returns, so a single call passes at most
\* once through the connection-string/parse step, at most once through pool
\* construction and at most once through the ping; no step constructs more
\* than one pool.
C15_ConnectNeverRetries ==
    [][\A t \in Threads :
         (InConnect(t) /\ pc'[t] # pc[t]) =>
              /\ \/ pc'[t] = "idle"
                 \/ /\ pc'[t] \in ConnectPcs
                    /\ ConnectRank(pc'[t]) > ConnectRank(pc[t])
              /\ Len(pgxpools') <= Len(pgxpools) + 1
              /\ Len(pgxpools') > Len(pgxpools) => pc[t] = "create"]_vars

\* The only Connect made so far has failed at the ping: one pool was
\* constructed, pinged and closed, and nothing was constructed again.
C15_Witness ==
    /\ ret.thread # NoThread
    /\ ret.err = "ping"
    /\ Len(pgxpools) = 1
    /\ ~pgxpools[1].open
    /\ \A t \in Threads : pc[t] = "idle"

\* ---------------------------------------------------------------------- C16
\* C16: under any interleaving of Connect, DatabaseConnection.Close and
\* ConnectionProvider.Close calls by the threads, with driver calls that return
\* and a fair lock, every call that has begun eventually returns, and a thread
\* that is in no call holds the registry lock neither as writer nor as reader.
C16_EveryCallReturnsLockReleased ==
    /\ \A t \in Threads : [](InFlight(t) => <>(pc[t] = "idle"))
    /\ [](\A t \in Threads : pc[t] = "idle" => mu.writer # t /\ t \notin mu.readers)

\* A ConnectionProvider.Close waits for the write lock while a Connect holds it
\* in the middle of building a pool.
C16_Witness ==
    \E t, u \in Threads :
        /\ pc[t] = "pc_lock"
        /\ pc[u] = "ping"
        /\ mu.writer = u

\* ---------------------------------------------------------------------- C17
\* C17: every DatabaseConnection.Close on a handle obtained from Connect returns
\* nil, in whatever order the handles of a name are closed; once Close has
\* returned on all handles of a name, the name has no registry entry, so a
\* Connect for that name that then succeeds has constructed a new pool, open
\* and bound to none of the handles closed before.
C17_CloseAnyOrderThenFreshPool ==
    [][\A t \in Threads :
         /\ (pc[t] \in ConnClosePcs /\ pc'[t] = "idle") =>
               ret'.thread = t /\ ret'.err = "nil"
         /\ \A n \in DatabaseNames : AllClosed(n) => pools[n] = NoPool
         /\ (ConnectReturnStep(t) /\ AllClosed(dbName[t]) /\ ret'.err = "nil") =>
               /\ pc[t] = "register"
               /\ conns'[ret'.conn].Pool \notin {conns[c].Pool : c \in DOMAIN conns}
               /\ pgxpools'[conns'[ret'.conn].Pool].open
               /\ pools'[dbName[t]] = conns'[ret'.conn].Pool]_vars

\* Two handles shared the pool of one name, both were closed, and a third
\* Connect for the name has just returned a handle on a newly built pool.
C17_Witness ==
    /\ Len(conns) = 3
    /\ ret.conn = 3
    /\ ret.err = "nil"
    /\ conns[1].dbName = conns[3].dbName
    /\ conns[2].dbName = conns[3].dbName
    /\ conns[1].Pool = conns[2].Pool
    /\ closeCalls[1] = 1
    /\ closeCalls[2] = 1
    /\ conns[3].Pool # conns[1].Pool
    /\ pgxpools[conns[3].Pool].open

\* ---------------------------------------------------------------------- C18
\* C18: DatabaseConnection.Close on a handle that has no provider closes the
\* handle's pool in one step and returns nil; the step leaves the registry lock,
\* the registry and every other pool as they were.
C18_ManualHandleClosesDirectly ==
    [][\A t \in Threads :
         (pc[t] = "cc_lock" /\ ~conns[self[t]].provider /\ pc'[t] # pc[t]) =>
              /\ pc'[t] = "idle"
              /\ ret'.thread = t
              /\ ret'.err = "nil"
              /\ ~pgxpools'[conns[self[t]].Pool].open
              /\ \A i \in DOMAIN pgxpools :
                    i # conns[self[t]].Pool => pgxpools'[i] = pgxpools[i]
              /\ mu' = mu
              /\ pools' = pools]_vars

\* Close on a manually built handle has just returned nil, its pool is closed,
\* while another thread holds the registry's write lock and a pool is registered.
C18_Witness ==
    \E c \in DOMAIN conns :
        /\ ~conns[c].provider
        /\ closeCalls[c] = 1
        /\ \A d \in DOMAIN conns : d # c => closeCalls[d] = 0
        /\ ~pgxpools[conns[c].Pool].open
        /\ ret.thread # NoThread
        /\ ret.err = "nil"
        /\ ret.conn = NoConn
        /\ mu.writer \notin {NoThread, ret.thread}
        /\ Registered # {}

\* ---------------------------------------------------------------------- C19
\* C19: after NewConnectionProvider has applied any sequence of options, each
\* field of poolConfig holds the value written by the last option that touches
\* the field (WithPoolConfig touches every field, a single-field option only
\* its own), or the zero value when no option touches it; applying the options
\* one by one gives the same configuration as applying the whole sequence.
C19_LastOptionWins ==
    /\ \A f \in ConfigFields : poolConfig[f] = LastWrite(opts, f)
    /\ poolConfig = NewConnectionProvider(opts)

\* WithMaxConns, then WithPoolConfig with another MaxConns, then WithMinConns:
\* MaxConns is the one of WithPoolConfig, MinConns the one of WithMinConns.
C19_Witness ==
    /\ Len(opts) = 3
    /\ opts[1].name = "WithMaxConns"
    /\ opts[2].name = "WithPoolConfig"
    /\ opts[3].name = "WithMinConns"
    /\ opts[1].value # opts[2].config.MaxConns
    /\ opts[3].value # opts[2].config.MinConns
    /\ poolConfig.MaxConns = opts[2].config.MaxConns
    /\ poolConfig.MinConns = opts[3].value
    /\ poolConfig.MaxConnLifetime = opts[2].config.MaxConnLifetime

\* ---------------------------------------------------------------------- C20
\* C20: every GetNoRowsSentinel call, in whatever state the provider is,
\* returns the driver's "no rows" sentinel and changes neither the registry
\* lock, the registry, the pools, the handles nor the configuration.
C20_SentinelIsConstant ==
    [][\A t \in Threads :
         SentinelStep(t) =>
              /\ ret'.err = ErrNoRows
              /\ ret'.conn = NoConn
              /\ UNCHANGED <<pools, mu, pgxpools, conns, closeCalls, poolConfig, opts>>]_vars

\* The sentinel has just been returned to a thread while another thread holds
\* the write lock in the middle of ConnectionProvider.Close, a closed pool
\* still being registered.
C20_Witness ==
    /\ ret.thread # NoThread
    /\ ret.err = ErrNoRows
    /\ mu.writer \notin {NoThread, ret.thread}
    /\ \E u \in Threads : pc[u] = "pc_unlock"
    /\ \E i \in DOMAIN pgxpools : ~pgxpools[i].open

\* ---------------------------------------------------------------------- C21
\* C21: a Connect that missed in its read-locked lookup and then, holding the
\* write lock, finds a pool registered for the name returns in that step a new
\* handle bound to the registered pool with a nil error and releases the lock;
\* it passes through no build stage and constructs, closes and registers no pool.
C21_DoubleCheckReturnsExistingPool ==
    [][\A t \in Threads :
         (pc[t] = "dcheck" /\ pools[dbName[t]] # NoPool /\ pc'[t] # pc[t]) =>
              /\ mu.writer = t
              /\ pc'[t] \notin BuildStages \cup {"register"}
              /\ pc'[t] = "idle"
              /\ ret' = [thread |-> t, conn |-> Len(conns') , err |-> "nil", ctx |-> ctx[t]]
              /\ conns'[Len(conns')] = NewConn(pools[dbName[t]], dbName[t])
              /\ pgxpools' = pgxpools
              /\ pools' = pools
              /\ mu'.writer = NoThread]_vars

\* A caller missed under the read lock, another caller then registered an open
\* pool for the name and returned, and the first caller now holds the write
\* lock at the re-check.
C21_Witness ==
    \E t \in Threads :
        /\ pc[t] = "dcheck"
        /\ mu.writer = t
        /\ pools[dbName[t]] # NoPool
        /\ pgxpools[pools[dbName[t]]].open
        /\ Len(pgxpools) = 1
        /\ Len(conns) = 1
        /\ conns[1].dbName = dbName[t]
        /\ \A u \in Threads \ {t} : pc[u] = "idle"

\* ---------------------------------------------------------------------- C22
\* C22: a thread about to look the map up holds the lock (as reader at the
\* first lookup, as writer at the re-check and in ConnectionProvider.Close); a
\* thread about to insert into, delete from or replace the map holds it as
\* writer; the lock has a writer only while it has no reader, so no thread is
\* at a map write while another thread is at any map access; and no step of a
\* thread that does not hold the write lock changes the map.
C22_MapAccessUnderLock ==
    [][/\ \A t \in Threads :
            /\ pc[t] \in MapReadPcs => (t \in mu.readers \/ mu.writer = t)
            /\ pc[t] \in MapWritePcs => mu.writer = t
            /\ (pc'[t] # pc[t] /\ pools' # pools) =>
                  pc[t] \in MapWritePcs /\ mu.writer = t
       /\ mu.writer # NoThread => mu.readers = {}
       /\ \A t, u \in Threads :
            (t # u /\ pc[t] \in MapWritePcs) => pc[u] \notin MapReadPcs \cup MapWritePcs]_vars

\* A DatabaseConnection.Close has just deleted an entry under the write lock
\* while a Connect waits for the read lock and another pool stays registered.
C22_Witness ==
    \E t, u \in Threads :
        /\ pc[t] = "cc_unlock"
        /\ mu.writer = t
        /\ pc[u] = "rlock"
        /\ pools[conns[self[t]].dbName] = NoPool
        /\ Registered # {}

\* ---------------------------------------------------------------------- C23
\* C23: a Connect that has constructed a pool and is about to ping it holds
\* the write lock, and the pool is neither registered nor bound to a handle;
\* a pool whose ping failed (a pool constructed by Connect that no call is
\* working on and no handle is bound to) is closed, its close was invoked
\* exactly once, and it is not registered.
C23_FailedPingClosesOnce ==
    /\ \A t \in Threads :
          pc[t] = "ping" =>
              /\ mu.writer = t
              /\ pgxpools[pool[t]].open
              /\ pool[t] \notin Registered
              /\ ConnsOn(pool[t]) = {}
    /\ \A i \in DOMAIN pgxpools :
          (ConnsOn(i) = {} /\ \A t \in Threads : pool[t] # i) =>
              /\ ~pgxpools[i].open
              /\ pgxpools[i].closes = 1
              /\ i \notin Registered

\* The pool first built for a name failed its ping and was closed once; calls
\* made since then have registered another pool for the name and have never
\* returned a handle on the failed one.
C23_Witness ==
    /\ AllIdle
    /\ Len(pgxpools) >= 2
    /\ ConnsOn(1) = {}
    /\ pgxpools[1].closes = 1
    /\ \E j \in Registered :
          /\ pgxpools[j].db = pgxpools[1].db
          /\ ConnsOn(j) # {}
          /\ pgxpools[j].open

\* ---------------------------------------------------------------------- C24
\* C24: every pool Connect has built has the provider's MinConns,
\* MaxConnLifetime, MaxConnIdleTime and AfterConnect, zero or not, whatever the
\* connection string says, and has the provider's MaxConns when that is not
\* zero and the connection string's MaxConns otherwise; Connect fails
\* validation only under a non-zero MaxConns below 1, never because of a zero
\* duration.
C24_EffectivePoolConfig ==
    /\ \A i \in DOMAIN pgxpools :
          LET c == pgxpools[i].config
              parsed == ParseConfig(pgxpools[i].db)
          IN /\ c.MinConns = poolConfig.MinConns
             /\ c.MaxConnLifetime = poolConfig.MaxConnLifetime
             /\ c.MaxConnIdleTime = poolConfig.MaxConnIdleTime
             /\ c.AfterConnect = poolConfig.AfterConnect
             /\ poolConfig.MaxConns # 0 => c.MaxConns = poolConfig.MaxConns
             /\ poolConfig.MaxConns = 0 => c.MaxConns = parsed.MaxConns
    /\ ret.err = "maxconns" => (poolConfig.MaxConns # 0 /\ poolConfig.MaxConns < 1)
    /\ poolConfig.MaxConns >= 0 => ret.err \in {"none", "nil"}

\* A provider built with zero durations and no MaxConns has just connected to
\* db2: the pool has zero durations although the connection string gives
\* others, and the MaxConns of the connection string.
C24_Witness ==
    /\ opts # <<>>
    /\ poolConfig.MaxConns = 0
    /\ poolConfig.MaxConnLifetime = 0
    /\ poolConfig.MaxConnIdleTime = 0
    /\ ret.err = "nil"
    /\ Len(pgxpools) = 1
    /\ pgxpools[1].db = "db2"
    /\ pgxpools[1].config.MaxConnLifetime = 0
    /\ ParseConfig("db2").MaxConnLifetime # 0
    /\ pgxpools[1].config.MaxConns = ParseConfig("db2").MaxConns

\* ---------------------------------------------------------------------- C25
\* C25: the step of DatabaseConnection.Close that closes the handle's pool and
\* deletes the entry of the handle's name leaves that entry as it is when it
\* holds a pool other than the handle's own.
C25_CloseRemovesOnlyOwnEntry ==
    [][\A t \in Threads :
         ConnClosePoolStep(t) =>
              LET n == conns[self[t]].dbName
              IN pools[n] # conns[self[t]].Pool => pools'[n] = pools[n]]_vars

\* ---------------------------------------------------------------------- C26
\* C26: in every reachable state every registered pool has been constructed,
\* is open and has never had its close invoked, and is registered under the
\* name it was constructed for; hence no step closes a pool and leaves it
\* registered.
C26_RegisteredPoolsAreOpen ==
    \A n \in DatabaseNames :
        pools[n] # NoPool =>
            /\ pools[n] \in DOMAIN pgxpools
            /\ pgxpools[pools[n]].open
            /\ pgxpools[pools[n]].closes = 0
            /\ pgxpools[pools[n]].db = n

\* A pool is registered and open although an earlier pool of the same name
\* was closed by ConnectionProvider.Close and a pool of another name by a
\* DatabaseConnection.Close.
C26_Witness ==
    \E n \in DatabaseNames :
        /\ pools[n] # NoPool
        /\ \E i \in PoolsFor(n) :
              ~pgxpools[i].open /\ ConnsOn(i) # {} /\ \A c \in ConnsOn(i) : closeCalls[c] = 0
        /\ \E c \in DOMAIN conns :
              conns[c].dbName # n /\ closeCalls[c] >= 1 /\ ~pgxpools[conns[c].Pool].open

\* ---------------------------------------------------------------------- C27
\* C27 (as stated): while a Connect is building a pool, no other operation on
\* the provider completes: no call has just returned.
C27_NothingCompletesDuringBuild ==
    (\E t \in Threads : pc[t] \in BuildingPcs) => ret.thread = NoThread

\* C27 (amended): a Connect that is building a pool holds the write lock, so
\* every other call in flight (a Connect for any name, registered or not, a
\* DatabaseConnection.Close, a ConnectionProvider.Close) waits for the lock,
\* which it cannot get, and the only operation on the provider that has just
\* completed is a GetNoRowsSentinel, which takes no lock.
C27_LockTakingCallsWaitDuringBuild ==
    \A t \in Threads :
        pc[t] \in BuildingPcs =>
            /\ mu.writer = t
            /\ mu.readers = {}
            /\ ~CanRLock
            /\ ~CanLock
            /\ \A u \in Threads \ {t} : pc[u] \in LockWaitPcs \cup {"idle"}
            /\ ret.thread # NoThread => ret.err = ErrNoRows

\* While one Connect pings the pool it built, a Connect for another name,
\* whose pool is registered, waits for the read lock.
C27_Witness ==
    \E t, u \in Threads :
        /\ pc[t] = "ping"
        /\ pc[u] = "rlock"
        /\ dbName[u] # dbName[t]
        /\ pools[dbName[u]] # NoPool

\* ---------------------------------------------------------------------- C28
\* C28: no step of a DatabaseConnection.Close call on a handle for name X
\* changes the registry entry of a name other than X or any pool other than
\* the one the handle is bound to.
C28_CloseFrame ==
    [][\A t \in Threads :
         (pc[t] \in ConnClosePcs /\ pc'[t] # pc[t]) =>
              /\ \A n \in DatabaseNames \ {conns[self[t]].dbName} : pools'[n] = pools[n]
              /\ DOMAIN pgxpools' = DOMAIN pgxpools
              /\ \A i \in DOMAIN pgxpools \ {conns[self[t]].Pool} :
                    pgxpools'[i] = pgxpools[i]]_vars

\* A handle of one name has just been closed and its entry deleted; the pool
\* of the other name is still registered and open.
C28_Witness ==
    \E t \in Threads :
        /\ pc[t] = "cc_unlock"
        /\ pools[conns[self[t]].dbName] = NoPool
        /\ ~pgxpools[conns[self[t]].Pool].open
        /\ \E n \in DatabaseNames \ {conns[self[t]].dbName} :
              pools[n] # NoPool /\ pgxpools[pools[n]].open

\* ---------------------------------------------------------------------- C29
\* C29: when a ConnectionProvider.Close that no call overlapped has returned,
\* the provider is in the state of a newly constructed provider with the same
\* options (empty registry, free lock, same configuration); and every handle
\* Connect returns, after a Close as before, is bound to a pool that is open,
\* was never closed and is registered under the handle's name.
C29_ProviderUsableAfterClose ==
    /\ (AllIdle /\ ovState = "none" /\ ret.thread # NoThread /\ ret.err = "none") =>
          /\ pools = [n \in DatabaseNames |-> NoPool]
          /\ mu = [writer |-> NoThread, readers |-> {}]
          /\ poolConfig = NewConnectionProvider(opts)
    /\ ret.conn # NoConn =>
          /\ pgxpools[conns[ret.conn].Pool].open
          /\ pgxpools[conns[ret.conn].Pool].closes = 0
          /\ pools[conns[ret.conn].dbName] = conns[ret.conn].Pool

\* The pool of a name was closed by ConnectionProvider.Close (no handle on it
\* was closed), and a Connect for the same name has now returned a handle on a
\* newly built, registered pool.
C29_Witness ==
    /\ Len(conns) = 2
    /\ ret.conn = 2
    /\ ret.err = "nil"
    /\ conns[1].dbName = conns[2].dbName
    /\ closeCalls[1] = 0
    /\ ~pgxpools[conns[1].Pool].open
    /\ pgxpools[conns[1].Pool].closes = 1
    /\ conns[2].Pool # conns[1].Pool
    /\ pools[conns[2].dbName] = conns[2].Pool
    /\ pgxpools[conns[2].Pool].open
    /\ AllIdle

\* ---------------------------------------------------------------------- C30
\* C30: a Connect for name X that fails, at whatever stage, leaves X without a
\* registry entry, the lock free and the configuration as it was, so nothing
\* records the failure; any Connect that finds no entry for its name at the
\* re-check starts with the parse stage, and one that reaches the end of the
\* stages registers the pool it built and returns a handle bound to it.
C30_FailureNotRemembered ==
    [][\A t \in Threads :
         /\ (ConnectReturnStep(t) /\ ret'.err \in ErrorValues) =>
               /\ pools'[dbName[t]] = NoPool
               /\ mu' = [writer |-> NoThread, readers |-> {}]
               /\ poolConfig' = poolConfig
               /\ opts' = opts
         /\ (pc[t] = "dcheck" /\ pools[dbName[t]] = NoPool /\ pc'[t] # pc[t]) =>
               pc'[t] = "parse"
         /\ (pc[t] = "register" /\ pc'[t] # pc[t]) =>
               /\ pools'[dbName[t]] = pool[t]
               /\ ret'.err = "nil"
               /\ conns'[ret'.conn] = NewConn(pool[t], dbName[t])
               /\ pgxpools'[pool[t]].open]_vars

\* The first Connect for a name failed at the ping; the second Connect for the
\* same name has just built and registered another pool and returned the first
\* handle.
C30_Witness ==
    /\ ret.err = "nil"
    /\ ret.conn = 1
    /\ Len(conns) = 1
    /\ Len(pgxpools) = 2
    /\ pgxpools[1].db = conns[1].dbName
    /\ pgxpools[2].db = conns[1].dbName
    /\ ~pgxpools[1].open
    /\ conns[1].Pool = 2
    /\ pools[conns[1].dbName] = 2

====
